---- MODULE Spec2Model ----
(***************************************************************************)
(* Model of the cue synchronisation engine of All-in-One.py:               *)
(* merge_cues_in_group (lines 155-167) and synchronize_cues (169-241).     *)
(*                                                                         *)
(* A cue is the dict {'start_sec', 'end_sec', 'text'}.  A text is modelled *)
(* as the sequence of its lines, so "\n".join(...) is concatenation.       *)
(* Python list indices are 0-based, the model's are 1-based.               *)
(* A Python dict keyed by start_sec is modelled as the sequence of the     *)
(* indices of the stored cues, in insertion order; the key of an entry is  *)
(* the start_sec of the cue it stores.                                     *)
(***************************************************************************)
EXTENDS Integers, Sequences, FiniteSets, TLC

VARIABLES
    en_cues,                \* argument en_cues (primary track)
    kr_cues,                \* argument kr_cues (secondary track)
    synced_pairs,           \* local synced_pairs
    used_kr_indices,        \* local used_kr_indices
    processed_en_groups,    \* local processed_en_groups
    i,                      \* index of the outer for loop (line 177)
    overlapping_group_en,   \* dict overlapping_group_en
    overlapping_group_kr,   \* dict overlapping_group_kr
    pc,                     \* position in synchronize_cues / merge driver
    group,                  \* argument of merge_cues_in_group
    permuted,               \* the same cues in another calling order
    merged,                 \* merge_cues_in_group(group)
    merged_permuted         \* merge_cues_in_group(permuted)

vars == <<en_cues, kr_cues, synced_pairs, used_kr_indices, processed_en_groups,
          i, overlapping_group_en, overlapping_group_kr, pc,
          group, permuted, merged, merged_permuted>>

syncVars == <<en_cues, kr_cues, synced_pairs, used_kr_indices,
              processed_en_groups, i, overlapping_group_en,
              overlapping_group_kr>>

mergeVars == <<group, permuted, merged, merged_permuted>>

----------------------------------------------------------------------------
(* Bounds of the model *)

MaxLen == 2

MaxT == 3

MaxGroup == 3

Lines == {"a", "b"}

Times == 0 .. MaxT

None == [none |-> TRUE]

\* The cues the extractor can hand over: start <= end, one line of text.
Cues == {c \in [start_sec : Times, end_sec : Times, text : {<<l>> : l \in Lines}] :
            c.start_sec <= c.end_sec}

Tracks == UNION {[1 .. n -> Cues] : n \in 0 .. MaxLen}

----------------------------------------------------------------------------
(* Helpers *)

Min2(a, b) == IF a < b THEN a ELSE b

Max2(a, b) == IF a > b THEN a ELSE b

MinOf(S) == CHOOSE x \in S : \A y \in S : x <= y

MaxOf(S) == CHOOSE x \in S : \A y \in S : x >= y

Range(s) == {s[n] : n \in DOMAIN s}

\* Strict overlap with <= instead of <: touching intervals would overlap.
OverlapsTouching(s1, e1, s2, e2) == Max2(s1, s2) <= Min2(e1, e2)

\* max(a.start, b.start) < min(a.end, b.end)
Overlaps(s1, e1, s2, e2) == Max2(s1, s2) < Min2(e1, e2)

\* Python's sorted(seq, key=...) / list.sort(key=...) is a stable sort: for
\* the sequence of the keys, the index that comes p-th.
StableOrder(keys) ==
    LET rank(n) == 1 + Cardinality({m \in DOMAIN keys :
                        \/ keys[m] < keys[n]
                        \/ keys[m] = keys[n] /\ m < n})
    IN  [p \in DOMAIN keys |-> CHOOSE n \in DOMAIN keys : rank(n) = p]

\* sorted(group, key=lambda x: x['start_sec'])
SortedByStart(g) ==
    [p \in DOMAIN g |-> g[StableOrder([n \in DOMAIN g |-> g[n].start_sec])[p]]]

\* "\n".join(texts): texts are sequences of lines.
RECURSIVE JoinLines(_)
JoinLines(texts) ==
    IF texts = <<>> THEN <<>>
    ELSE Head(texts) \o JoinLines(Tail(texts))

\* merge_cues_in_group taking the minimum of the ends.
merge_cues_in_group_min_end(g) ==
    IF g = <<>> THEN None
    ELSE [start_sec |-> MinOf({g[n].start_sec : n \in DOMAIN g}),
          end_sec   |-> MinOf({g[n].end_sec : n \in DOMAIN g}),
          text      |-> JoinLines([n \in DOMAIN g |-> SortedByStart(g)[n].text])]

merge_cues_in_group(g) ==
    IF g = <<>> THEN None
    ELSE [start_sec |-> MinOf({g[n].start_sec : n \in DOMAIN g}),
          end_sec   |-> MaxOf({g[n].end_sec : n \in DOMAIN g}),
          text      |-> JoinLines([n \in DOMAIN g |-> SortedByStart(g)[n].text])]

----------------------------------------------------------------------------
(* dicts keyed by start_sec *)

DictKeys(cues, d) == {cues[d[n]].start_sec : n \in DOMAIN d}

\* "key in dict" that never finds the key.
KeyNeverInDict(cues, d, idx) == FALSE

\* cue['start_sec'] in d
KeyInDict(cues, d, idx) == cues[idx].start_sec \in DictKeys(cues, d)

\* d[cue['start_sec']] = cue : overwrite in place, or insert at the end.
DictPut(cues, d, idx) ==
    IF cues[idx].start_sec \in DictKeys(cues, d)
    THEN [n \in DOMAIN d |->
            IF cues[d[n]].start_sec = cues[idx].start_sec THEN idx ELSE d[n]]
    ELSE Append(d, idx)

\* list(d.values())
DictValues(cues, d) == [n \in DOMAIN d |-> cues[d[n]]]

GroupStart(cues, d) == MinOf({cues[d[n]].start_sec : n \in DOMAIN d})

GroupEnd(cues, d) == MaxOf({cues[d[n]].end_sec : n \in DOMAIN d})

----------------------------------------------------------------------------
(* synchronize_cues *)

\* any(en_cue in group for group in processed_en_groups): list membership
\* compares the cue dicts by value.
InProcessedGroup(en_cue) ==
    \E g \in DOMAIN processed_en_groups :
        \E n \in DOMAIN processed_en_groups[g] :
            processed_en_groups[g][n] = en_cue

\* Lines 186-191: the not yet used kr cues that overlap the seed, stored
\* under their start_sec; j is the loop index, d the dict so far.
RECURSIVE InitialGroupKr(_, _, _)
InitialGroupKr(en_cue, j, d) ==
    IF j > Len(kr_cues) THEN d
    ELSE IF j \in used_kr_indices THEN InitialGroupKr(en_cue, j + 1, d)
    ELSE IF Overlaps(en_cue.start_sec, en_cue.end_sec,
                     kr_cues[j].start_sec, kr_cues[j].end_sec)
         THEN InitialGroupKr(en_cue, j + 1, DictPut(kr_cues, d, j))
         ELSE InitialGroupKr(en_cue, j + 1, d)

\* Lines 204-208: one sweep over en_cues against the kr group's interval
\* [lo, hi]; r.d is the dict so far, r.found is new_en_found.
RECURSIVE ExpandEn(_, _, _, _)
ExpandEn(n, r, lo, hi) ==
    IF n > Len(en_cues) THEN r
    ELSE IF /\ ~KeyInDict(en_cues, r.d, n)
            /\ Overlaps(lo, hi, en_cues[n].start_sec, en_cues[n].end_sec)
         THEN ExpandEn(n + 1, [d |-> DictPut(en_cues, r.d, n), found |-> TRUE],
                       lo, hi)
         ELSE ExpandEn(n + 1, r, lo, hi)

\* Lines 213-217: one sweep over kr_cues against the en group's interval.
RECURSIVE ExpandKr(_, _, _, _)
ExpandKr(n, r, lo, hi) ==
    IF n > Len(kr_cues) THEN r
    ELSE IF /\ n \notin used_kr_indices
            /\ ~KeyInDict(kr_cues, r.d, n)
            /\ Overlaps(lo, hi, kr_cues[n].start_sec, kr_cues[n].end_sec)
         THEN ExpandKr(n + 1, [d |-> DictPut(kr_cues, r.d, n), found |-> TRUE],
                       lo, hi)
         ELSE ExpandKr(n + 1, r, lo, hi)

\* Lines 227-228 left out: the merged kr cue keeps its own interval.
NoRestamp(merged_kr, merged_en) == merged_kr

\* Lines 227-228: the merged kr cue takes the merged en cue's interval.
Restamp(merged_kr, merged_en) ==
    [merged_kr EXCEPT !.start_sec = merged_en.start_sec,
                      !.end_sec = merged_en.end_sec]

\* Lines 234-237: the first index whose cue equals (by value) the cue.
FirstIndexOf(cue) == MinOf({n \in DOMAIN kr_cues : kr_cues[n] = cue})

\* Line 239 left out.
NotSorted(pairs) == pairs

\* Line 239: synced_pairs.sort(key=lambda x: x['en_cue']['start_sec'])
SortPairs(pairs) ==
    [p \in DOMAIN pairs |->
        pairs[StableOrder([n \in DOMAIN pairs |-> pairs[n].en_cue.start_sec])[p]]]

Init ==
    /\ en_cues \in Tracks
    /\ kr_cues \in Tracks
    /\ synced_pairs = <<>>
    /\ used_kr_indices = {}
    /\ processed_en_groups = <<>>
    /\ i = 1
    /\ overlapping_group_en = <<>>
    /\ overlapping_group_kr = <<>>
    /\ pc = "for"
    /\ group = <<>>
    /\ permuted = <<>>
    /\ merged = None
    /\ merged_permuted = None

\* Lines 177-180: the cue belongs to a processed group; next cue.
SkipProcessed ==
    /\ pc = "for"
    /\ i <= Len(en_cues)
    /\ InProcessedGroup(en_cues[i])
    /\ i' = i + 1
    /\ UNCHANGED <<en_cues, kr_cues, synced_pairs, used_kr_indices,
                   processed_en_groups, overlapping_group_en,
                   overlapping_group_kr, pc>>
    /\ UNCHANGED mergeVars

\* Lines 183-194 with no overlapping kr cue: continue.
NoMatch ==
    /\ pc = "for"
    /\ i <= Len(en_cues)
    /\ ~InProcessedGroup(en_cues[i])
    /\ InitialGroupKr(en_cues[i], 1, <<>>) = <<>>
    /\ i' = i + 1
    /\ overlapping_group_en' = <<i>>
    /\ overlapping_group_kr' = <<>>
    /\ UNCHANGED <<en_cues, kr_cues, synced_pairs, used_kr_indices,
                   processed_en_groups, pc>>
    /\ UNCHANGED mergeVars

\* Lines 183-194 with a non-empty initial kr group: enter the while loop.
SeedGroup ==
    /\ pc = "for"
    /\ i <= Len(en_cues)
    /\ ~InProcessedGroup(en_cues[i])
    /\ InitialGroupKr(en_cues[i], 1, <<>>) # <<>>
    /\ overlapping_group_en' = <<i>>
    /\ overlapping_group_kr' = InitialGroupKr(en_cues[i], 1, <<>>)
    /\ pc' = "while"
    /\ UNCHANGED <<en_cues, kr_cues, synced_pairs, used_kr_indices,
                   processed_en_groups, i>>
    /\ UNCHANGED mergeVars

\* Lines 197-220: one pass of the while loop.
ExpandPass ==
    /\ pc = "while"
    /\ LET en_r == ExpandEn(1, [d |-> overlapping_group_en, found |-> FALSE],
                            GroupStart(kr_cues, overlapping_group_kr),
                            GroupEnd(kr_cues, overlapping_group_kr))
           kr_r == ExpandKr(1, [d |-> overlapping_group_kr, found |-> FALSE],
                            GroupStart(en_cues, en_r.d),
                            GroupEnd(en_cues, en_r.d))
       IN  /\ overlapping_group_en' = en_r.d
           /\ overlapping_group_kr' = kr_r.d
           /\ pc' = IF ~en_r.found /\ ~kr_r.found THEN "merge" ELSE "while"
    /\ UNCHANGED <<en_cues, kr_cues, synced_pairs, used_kr_indices,
                   processed_en_groups, i>>
    /\ UNCHANGED mergeVars

\* Lines 223-237: merge both groups, append the pair, record the groups.
\* en_group, kr_group and kr_span are history fields of the model: the
\* indices of the cues the pair was merged from and the merged kr cue's
\* interval before line 227 overwrites it.
Emit ==
    /\ pc = "merge"
    /\ LET merged_en == merge_cues_in_group(DictValues(en_cues, overlapping_group_en))
           merged_kr == merge_cues_in_group(DictValues(kr_cues, overlapping_group_kr))
       IN  IF merged_en # None /\ merged_kr # None
           THEN /\ synced_pairs' = Append(synced_pairs,
                      [en_cue   |-> merged_en,
                       kr_cue   |-> Restamp(merged_kr, merged_en),
                       en_group |-> Range(overlapping_group_en),
                       kr_group |-> Range(overlapping_group_kr),
                       kr_span  |-> <<merged_kr.start_sec, merged_kr.end_sec>>])
                /\ processed_en_groups' = Append(processed_en_groups,
                      DictValues(en_cues, overlapping_group_en))
                /\ used_kr_indices' = used_kr_indices \cup
                      {FirstIndexOf(kr_cues[overlapping_group_kr[n]]) :
                          n \in DOMAIN overlapping_group_kr}
           ELSE UNCHANGED <<synced_pairs, processed_en_groups, used_kr_indices>>
    /\ i' = i + 1
    /\ pc' = "for"
    /\ UNCHANGED <<en_cues, kr_cues, overlapping_group_en, overlapping_group_kr>>
    /\ UNCHANGED mergeVars

\* Lines 239-241: the loop is over; sort and return.
Return ==
    /\ pc = "for"
    /\ i > Len(en_cues)
    /\ synced_pairs' = SortPairs(synced_pairs)
    /\ pc' = "done"
    /\ UNCHANGED <<en_cues, kr_cues, used_kr_indices, processed_en_groups, i,
                   overlapping_group_en, overlapping_group_kr>>
    /\ UNCHANGED mergeVars

Next ==
    \/ SkipProcessed
    \/ NoMatch
    \/ SeedGroup
    \/ ExpandPass
    \/ Emit
    \/ Return

Spec == Init /\ [][Next]_vars

\* The function runs to completion: it is straight-line code on one thread.
FairSpec == Spec /\ WF_vars(Next)

----------------------------------------------------------------------------
(* merge_cues_in_group called on one group in two calling orders *)

Orderings(n) == {f \in [1 .. n -> 1 .. n] : Range(f) = 1 .. n}

Groups == UNION {[1 .. n -> Cues] : n \in 0 .. MaxGroup}

InitMerge ==
    /\ group \in Groups
    /\ \E f \in Orderings(Len(group)) :
          permuted = [n \in DOMAIN group |-> group[f[n]]]
    /\ merged = None
    /\ merged_permuted = None
    /\ pc = "call"
    /\ en_cues = <<>>
    /\ kr_cues = <<>>
    /\ synced_pairs = <<>>
    /\ used_kr_indices = {}
    /\ processed_en_groups = <<>>
    /\ i = 1
    /\ overlapping_group_en = <<>>
    /\ overlapping_group_kr = <<>>

MergeCall ==
    /\ pc = "call"
    /\ merged' = merge_cues_in_group(group)
    /\ merged_permuted' = merge_cues_in_group(permuted)
    /\ pc' = "returned"
    /\ UNCHANGED <<group, permuted>>
    /\ UNCHANGED syncVars

NextMerge == MergeCall

SpecMerge == InitMerge /\ [][NextMerge]_vars

----------------------------------------------------------------------------
(* Vocabulary of the properties, stated without the operators above *)

\* The open intervals (s1, e1) and (s2, e2) share a point.
StrictOverlap(s1, e1, s2, e2) == s1 < e1 /\ s2 < e2 /\ s1 < e2 /\ s2 < e1

Contains(lo, hi, c) == lo <= c.start_sec /\ c.end_sec <= hi

Pairs == DOMAIN synced_pairs

\* Index n of en_cues overlaps some cue of the secondary track.
OverlapsSomeKr(n) ==
    \E j \in DOMAIN kr_cues :
        StrictOverlap(en_cues[n].start_sec, en_cues[n].end_sec,
                      kr_cues[j].start_sec, kr_cues[j].end_sec)

DistinctStarts(cues) ==
    \A m, n \in DOMAIN cues : m # n => cues[m].start_sec # cues[n].start_sec

----------------------------------------------------------------------------
(* C1 *)

\* C1: every secondary cue (by original index) contributed to at most one
\* output pair: the kr groups of two distinct pairs are disjoint.
C1_SecondaryExclusive ==
    \A p, q \in Pairs :
        p # q => synced_pairs[p].kr_group \cap synced_pairs[q].kr_group = {}

\* C1 holds when no two secondary cues are equal by value (lines 234-237
\* then mark exactly the cues of the group).
C1_WhenKrValuesDistinct ==
    (\A m, n \in DOMAIN kr_cues : m # n => kr_cues[m] # kr_cues[n])
        => C1_SecondaryExclusive

(* C2 *)

\* C2: every primary cue (by original index) contributed to at most one
\* output pair: the en groups of two distinct pairs are disjoint.
C2_PrimaryExclusive ==
    \A p, q \in Pairs :
        p # q => synced_pairs[p].en_group \cap synced_pairs[q].en_group = {}

\* C2 holds when the start times are distinct within each track.
C2_WhenStartsDistinct ==
    (DistinctStarts(en_cues) /\ DistinctStarts(kr_cues)) => C2_PrimaryExclusive

(* C3 *)

\* C3 as stated: the primary cue's interval contains every contributing
\* primary cue, and the interval carried by the pair's secondary cue
\* contains every contributing secondary cue.
C3_CarriedIntervalsContain ==
    \A p \in Pairs :
        /\ \A n \in synced_pairs[p].en_group :
              Contains(synced_pairs[p].en_cue.start_sec,
                       synced_pairs[p].en_cue.end_sec, en_cues[n])
        /\ \A j \in synced_pairs[p].kr_group :
              Contains(synced_pairs[p].kr_cue.start_sec,
                       synced_pairs[p].kr_cue.end_sec, kr_cues[j])

\* C3 amended: the primary cue's interval contains every contributing
\* primary cue, and the interval of the merged secondary cue before it is
\* re-stamped contains every contributing secondary cue.
C3_MergedIntervalsContain ==
    \A p \in Pairs :
        /\ \A n \in synced_pairs[p].en_group :
              Contains(synced_pairs[p].en_cue.start_sec,
                       synced_pairs[p].en_cue.end_sec, en_cues[n])
        /\ \A j \in synced_pairs[p].kr_group :
              Contains(synced_pairs[p].kr_span[1],
                       synced_pairs[p].kr_span[2], kr_cues[j])

\* A pair merged from two primary and two secondary cues of different ends,
\* one of the secondary cues reaching outside the interval the pair carries.
C3_Witness ==
    \E p \in Pairs :
        /\ \E m, n \in synced_pairs[p].en_group :
              en_cues[m].end_sec < en_cues[n].end_sec
        /\ \E j, k \in synced_pairs[p].kr_group :
              /\ kr_cues[j].end_sec < kr_cues[k].end_sec
              /\ ~Contains(synced_pairs[p].kr_cue.start_sec,
                           synced_pairs[p].kr_cue.end_sec, kr_cues[k])

(* C4 *)

\* C4 as stated: a primary cue that strictly overlaps no secondary cue
\* contributes to no output pair.
C4_NoOverlapNeverContributes ==
    \A n \in DOMAIN en_cues :
        ~OverlapsSomeKr(n) => \A p \in Pairs : n \notin synced_pairs[p].en_group

\* C4 amended: a primary cue contributes to a pair only if it strictly
\* overlaps the union interval [min start, max end] of the pair's secondary
\* cues, and a primary cue that overlaps no secondary cue is never the only
\* primary contributor of a pair.
C4_ContributorsOverlapKrSpan ==
    \A p \in Pairs :
        \A n \in synced_pairs[p].en_group :
            /\ StrictOverlap(en_cues[n].start_sec, en_cues[n].end_sec,
                             synced_pairs[p].kr_span[1], synced_pairs[p].kr_span[2])
            /\ synced_pairs[p].en_group = {n} => OverlapsSomeKr(n)

\* The run is over and a primary cue that overlaps no secondary cue sits in
\* a pair next to the seed: it lies in the gap between two secondary cues.
C4_Witness ==
    /\ pc = "done"
    /\ \E p \in Pairs :
          \E n \in synced_pairs[p].en_group :
              /\ ~OverlapsSomeKr(n)
              /\ Cardinality(synced_pairs[p].en_group) = 2
              /\ Cardinality(synced_pairs[p].kr_group) = 2

(* C5 *)

\* C5: no two output pairs have primary cues with the same (start, text).
C5_NoDuplicatePrimary ==
    \A p, q \in Pairs :
        p # q => ~ /\ synced_pairs[p].en_cue.start_sec = synced_pairs[q].en_cue.start_sec
                   /\ synced_pairs[p].en_cue.text = synced_pairs[q].en_cue.text

(* C6 *)

\* C6: in every output pair the secondary cue carries the primary cue's
\* start and end, which are the min start and max end of the primary group.
C6_TimestampsAligned ==
    \A p \in Pairs :
        /\ synced_pairs[p].kr_cue.start_sec = synced_pairs[p].en_cue.start_sec
        /\ synced_pairs[p].kr_cue.end_sec = synced_pairs[p].en_cue.end_sec
        /\ \A n \in synced_pairs[p].en_group :
              /\ synced_pairs[p].en_cue.start_sec <= en_cues[n].start_sec
              /\ synced_pairs[p].en_cue.end_sec >= en_cues[n].end_sec
        /\ \E n \in synced_pairs[p].en_group :
              synced_pairs[p].en_cue.start_sec = en_cues[n].start_sec
        /\ \E n \in synced_pairs[p].en_group :
              synced_pairs[p].en_cue.end_sec = en_cues[n].end_sec

\* A pair of two primary cues whose merged secondary cue had another start
\* and another end than the merged primary cue.
C6_Witness ==
    \E p \in Pairs :
        /\ Cardinality(synced_pairs[p].en_group) = 2
        /\ synced_pairs[p].kr_span[1] # synced_pairs[p].en_cue.start_sec
        /\ synced_pairs[p].kr_span[2] # synced_pairs[p].en_cue.end_sec

(* C7 *)

\* C7: merge_cues_in_group returns the same start, end and text for any two
\* orderings of the same non-empty group.
C7_OrderIndependent ==
    (pc = "returned" /\ group # <<>>) => merged = merged_permuted

\* C7 holds for the groups whose cues have distinct start times.
C7_WhenStartsDistinct ==
    (pc = "returned" /\ group # <<>> /\ DistinctStarts(group))
        => merged = merged_permuted

(* C8 *)

\* C8: the returned sequence is sorted non-decreasing by the primary cue's
\* start.
C8_OutputSorted ==
    pc = "done" =>
        \A p, q \in Pairs :
            p < q => synced_pairs[p].en_cue.start_sec <= synced_pairs[q].en_cue.start_sec

\* The run is over and the pairs were appended in decreasing start order.
C8_Witness ==
    /\ pc = "done"
    /\ Len(processed_en_groups) = 2
    /\ \A c \in Range(processed_en_groups[1]) :
          \A d \in Range(processed_en_groups[2]) : c.start_sec > d.start_sec

(* C9 *)

\* C9: when the while loop is left the group is a fixed point: every unused
\* secondary cue overlapping the primary group's union interval is in the
\* group, and every unconsumed primary cue overlapping the secondary group's
\* union interval is in the group.
C9_GroupIsFixedPoint ==
    pc = "merge" =>
        /\ \A j \in DOMAIN kr_cues :
              (/\ j \notin used_kr_indices
               /\ \E lo, hi \in Times :
                     /\ \A n \in Range(overlapping_group_en) :
                           Contains(lo, hi, en_cues[n])
                     /\ \E n \in Range(overlapping_group_en) : en_cues[n].start_sec = lo
                     /\ \E n \in Range(overlapping_group_en) : en_cues[n].end_sec = hi
                     /\ StrictOverlap(lo, hi, kr_cues[j].start_sec, kr_cues[j].end_sec))
              => j \in Range(overlapping_group_kr)
        /\ \A m \in DOMAIN en_cues :
              (/\ \A p \in Pairs : m \notin synced_pairs[p].en_group
               /\ \E lo, hi \in Times :
                     /\ \A n \in Range(overlapping_group_kr) :
                           Contains(lo, hi, kr_cues[n])
                     /\ \E n \in Range(overlapping_group_kr) : kr_cues[n].start_sec = lo
                     /\ \E n \in Range(overlapping_group_kr) : kr_cues[n].end_sec = hi
                     /\ StrictOverlap(lo, hi, en_cues[m].start_sec, en_cues[m].end_sec))
              => m \in Range(overlapping_group_en)

\* C9 holds when the start times are distinct within each track.
C9_WhenStartsDistinct ==
    (DistinctStarts(en_cues) /\ DistinctStarts(kr_cues)) => C9_GroupIsFixedPoint

(* C10 *)

\* C10: every pass of the while loop that is not the last one strictly
\* enlarges one of the two groups, and synchronize_cues returns.
C10_Terminates ==
    /\ [][(pc = "while" /\ pc' = "while") =>
            Len(overlapping_group_en') + Len(overlapping_group_kr')
                > Len(overlapping_group_en) + Len(overlapping_group_kr)]_vars
    /\ <>(pc = "done")

\* The run is over and one group was enlarged by a pass of the loop.
C10_Witness ==
    /\ pc = "done"
    /\ \E p \in Pairs :
          Cardinality(synced_pairs[p].en_group) > 1

====
